---- MODULE Spec2Model ----
(***************************************************************************)
(* rmdup: decide whether a duplicate candidate (file or directory tree)    *)
(* may be removed because everything in it exists at the original, and     *)
(* remove it only then.  Model of src/rmdup.py.                            *)
(*                                                                         *)
(* A Python str is a tuple of characters; a resolved filesystem path is a  *)
(* tuple of entry names (each a str).  The filesystem maps the existing    *)
(* paths to their nodes; the working directory is the empty path.          *)
(***************************************************************************)
EXTENDS Integers, Sequences, FiniteSets, TLC

VARIABLES fs, phase, args, before, result, removed, cmp, skip, listing, check

vars == <<fs, phase, args, before, result, removed, cmp, skip, listing, check>>

(* ------------------------------ bounds -------------------------------- *)

\* entries (files and directories) the filesystem holds at most
MaxNodes == 4
\* bytes in a file handed to same_content on its own at most
MaxLen == 2
\* largest block size the injected read_block reads with
MaxBlock == 2
\* paths in a list handed to _make_skip_path_tree on its own at most
MaxSkipPaths == 2
\* characters in such a path at most
MaxSkipLen == 3

(* --------------------------- program constants ------------------------ *)

READ_BUFFER_SIZE == 104857600

sep == "/"

(* ------------------------------ universe ------------------------------ *)

Bytes == {0, 1}
NameChars == {"a", "b"}
Chars == NameChars \cup {sep}
Names == {<<c>> : c \in NameChars}

SeqsUpTo(S, n) == UNION {[1..k -> S] : k \in 0..n}

\* the paths of the filesystem lie one to three names below the working
\* directory, those of the command line one or two
Depths == 1..3
ArgDepths == 1..2
Paths == UNION {[1..k -> Names] : k \in Depths}
ArgPaths == {p \in Paths : Len(p) \in ArgDepths}

\* what the files of the filesystem hold: nothing, or one byte
Contents == {<<>>} \cup {<<b>> : b \in Bytes}

Min(a, b) == IF a < b THEN a ELSE b

IsPrefix(p, q) == Len(p) <= Len(q) /\ SubSeq(q, 1, Len(p)) = p
IsStrictPrefix(p, q) == Len(p) < Len(q) /\ SubSeq(q, 1, Len(p)) = p

\* an enumeration of a finite set in some order (listdir, set iteration)
RECURSIVE SetToSeq(_)
SetToSeq(S) ==
    IF S = {} THEN <<>>
    ELSE LET x == CHOOSE x \in S : TRUE IN <<x>> \o SetToSeq(S \ {x})

Range(s) == {s[i] : i \in 1..Len(s)}

(* ----------------------------- filesystem ----------------------------- *)

DirNode == [kind |-> "dir"]
FileNode(ino, data) == [kind |-> "file", ino |-> ino, data |-> data]

\* os.path.exists / os.path.isdir
file_exists(f, p) == p \in DOMAIN f
isdir(f, p) == p \in DOMAIN f /\ f[p].kind = "dir"
isfile(f, p) == p \in DOMAIN f /\ f[p].kind = "file"

\* the working directory is a directory that always exists
IsDirectory(f, p) == p = <<>> \/ isdir(f, p)

\* st_size of a directory is the file system's business; the model takes the
\* number of its entries, so that it grows with the directory, equals the size
\* of some files and differs from the size of others
DirSize(f, d) == Cardinality({q \in DOMAIN f : Len(q) = Len(d) + 1 /\ IsPrefix(d, q)})

\* os.stat: what the call returns for an existing path (kind, inode, size);
\* a directory is one object per path, a file one object per inode
Stat(f, p) ==
    IF f[p].kind = "dir"
    THEN [st_mode |-> "dir", st_ino |-> <<"dir", p>>, st_size |-> DirSize(f, p)]
    ELSE [st_mode |-> "file", st_ino |-> <<"file", f[p].ino>>, st_size |-> Len(f[p].data)]

\* os.listdir: the names directly under a directory, in some order
listdir(f, d) ==
    SetToSeq({p[Len(p)] : p \in {q \in DOMAIN f : Len(q) = Len(d) + 1 /\ IsPrefix(d, q)}})

\* os.path.join(directory, relative) and os.path.relpath(path, directory)
join(d, rel) == d \o rel
relpath(p, d) == SubSeq(p, Len(d) + 1, Len(p))

\* what open() and os.path.getsize see at a path
Missing == [kind |-> "missing"]
Obj(f, p) ==
    IF p \notin DOMAIN f THEN Missing
    ELSE IF f[p].kind = "dir" THEN [kind |-> "dir", size |-> DirSize(f, p)]
    ELSE [kind |-> "file", size |-> Len(f[p].data), data |-> f[p].data]

(* ------------------- test fixture: building the tree ------------------ *)

Parents(p) == {SubSeq(p, 1, k) : k \in 1..(Len(p) - 1)}

\* TempDir.make_file: make the missing parent directories, write the file
make_file_ok(f, p) ==
    /\ \A d \in Parents(p) : d \in DOMAIN f => f[d].kind = "dir"
    /\ p \in DOMAIN f => f[p].kind = "file"

make_file(f, p, content) ==
    IF p \in DOMAIN f
    THEN \* open(filename, 'wb') rewrites the inode: every link to it sees the content
         [q \in DOMAIN f |->
            IF f[q].kind = "file" /\ f[q].ino = f[p].ino
            THEN FileNode(f[q].ino, content) ELSE f[q]]
    ELSE [q \in DOMAIN f \cup Parents(p) \cup {p} |->
            IF q = p THEN FileNode(p, content)
            ELSE IF q \in DOMAIN f THEN f[q] ELSE DirNode]

\* os.mkdir
mkdir_ok(f, p) ==
    /\ p \notin DOMAIN f
    /\ IsDirectory(f, SubSeq(p, 1, Len(p) - 1))

mkdir(f, p) == [q \in DOMAIN f \cup {p} |-> IF q = p THEN DirNode ELSE f[q]]

\* os.link: another name for an existing file's inode
link_ok(f, src, dst) ==
    /\ isfile(f, src)
    /\ dst \notin DOMAIN f
    /\ IsDirectory(f, SubSeq(dst, 1, Len(dst) - 1))

link(f, src, dst) == [q \in DOMAIN f \cup {dst} |-> IF q = dst THEN f[src] ELSE f[q]]

(* --------------------------- PathIdentity ----------------------------- *)

\* faulty variant: the names are compared, not what they denote
same_file_or_dir_by_name(f, path1, path2) ==
    IF path1 \in DOMAIN f /\ path2 \in DOMAIN f THEN path1 = path2 ELSE FALSE

same_file_or_dir(f, path1, path2) ==
    IF path1 \in DOMAIN f /\ path2 \in DOMAIN f
    THEN Stat(f, path1) = Stat(f, path2)
    ELSE FALSE  \* except OSError

(* -------------------------- ContentComparator ------------------------- *)

\* file.read(n) at an offset
read(data, pos, n) == SubSeq(data, pos + 1, Min(pos + n, Len(data)))

same_size(o1, o2) ==
    IF o1.kind = "missing" \/ o2.kind = "missing"
    THEN FALSE  \* except OSError
    ELSE o1.size = o2.size

\* faulty variant: the first pair of blocks decides, the loop is gone
compare_blocks_once(d1, d2, pos1, pos2, n, reads) ==
    LET buff1 == read(d1, pos1, n)
        buff2 == read(d2, pos2, n)
    IN  [raised |-> "", value |-> buff1 = buff2, reads |-> reads \o <<buff1, buff2>>]

\* the while loop of same_content: [value, reads]
RECURSIVE compare_blocks(_, _, _, _, _, _)
compare_blocks(d1, d2, pos1, pos2, n, reads) ==
    LET buff1 == read(d1, pos1, n)
        buff2 == read(d2, pos2, n)
        r == reads \o <<buff1, buff2>>
    IN  IF buff1 # buff2 THEN [raised |-> "", value |-> FALSE, reads |-> r]
        ELSE IF buff1 = <<>> THEN [raised |-> "", value |-> TRUE, reads |-> r]
        ELSE compare_blocks(d1, d2, pos1 + Len(buff1), pos2 + Len(buff2), n, r)

\* same_content on what the two names denote, reading blocks of n bytes:
\* [raised, value, reads]; raised = "" when the call returns
same_content(o1, o2, n) ==
    IF ~same_size(o1, o2) THEN [raised |-> "", value |-> FALSE, reads |-> <<>>]
    ELSE IF o1.kind # "file" \/ o2.kind # "file"
    THEN [raised |-> "IOError", value |-> FALSE, reads |-> <<>>]  \* open() of a directory
    ELSE compare_blocks(o1.data, o2.data, 0, 0, n, <<>>)

(* ------------------------------ SkipTree ------------------------------ *)

EmptyTree == <<>>

\* str.split(os.path.sep)
RECURSIVE split(_)
split(s) ==
    IF \A i \in 1..Len(s) : s[i] # sep THEN <<s>>
    ELSE LET i == CHOOSE i \in 1..Len(s) : s[i] = sep /\ \A j \in 1..(i - 1) : s[j] # sep
         IN  <<SubSeq(s, 1, i - 1)>> \o split(SubSeq(s, i + 1, Len(s)))

\* the inner loop and the clear() of _make_skip_path_tree for one skip path
RECURSIVE insert_skip_path(_, _)
insert_skip_path(tree, segments) ==
    IF segments = <<>> THEN EmptyTree
    ELSE LET path == Head(segments)
             sub == IF path \in DOMAIN tree THEN tree[path] ELSE EmptyTree
         IN  [k \in DOMAIN tree \cup {path} |->
                IF k = path THEN insert_skip_path(sub, Tail(segments)) ELSE tree[k]]

RECURSIVE insert_all(_, _)
insert_all(tree, path_list) ==
    IF path_list = <<>> THEN tree
    ELSE insert_all(insert_skip_path(tree, split(Head(path_list))), Tail(path_list))

_make_skip_path_tree(path_list) == insert_all(EmptyTree, path_list)

(* ---------------------------- TreeEnumerator -------------------------- *)

RECURSIVE FlatMap(_, _, _, _)

\* _files_in: the full paths yielded, in the order yielded
RECURSIVE _files_in(_, _, _)
_files_in(f, directory, skip_path_tree) ==
    FlatMap(f, directory, skip_path_tree, listdir(f, directory))

FlatMap(f, directory, skip_path_tree, files_and_dirs) ==
    IF files_and_dirs = <<>> THEN <<>>
    ELSE LET path == Head(files_and_dirs)
             full_path == join(directory, <<path>>)
             here ==
                IF path \in DOMAIN skip_path_tree /\ skip_path_tree[path] = EmptyTree
                THEN <<>>
                ELSE IF isdir(f, full_path)
                THEN _files_in(f, full_path,
                        IF path \in DOMAIN skip_path_tree
                        THEN skip_path_tree[path] ELSE EmptyTree)
                ELSE <<full_path>>
         IN  here \o FlatMap(f, directory, skip_path_tree, Tail(files_and_dirs))

\* faulty variant: the leaf test is gone, an entry whose name is in the skip
\* tree is skipped whole (the tree of the paths' first segments has that effect)
files_in_any_node_skips(f, directory, skip_paths) ==
    LET firsts == [i \in 1..Len(skip_paths) |-> Head(split(skip_paths[i]))]
        full == _files_in(f, directory, _make_skip_path_tree(firsts))
    IN  [i \in 1..Len(full) |-> relpath(full[i], directory)]

\* files_in: the relative paths yielded (the directory must be listable)
files_in(f, directory, skip_paths) ==
    LET full == _files_in(f, directory, _make_skip_path_tree(skip_paths))
    IN  [i \in 1..Len(full) |-> relpath(full[i], directory)]

(* ----------------------------- DuplicateJudge ------------------------- *)

\* a judgment: safe (the code's None), a reason, or an exception leaving the judge
Safe == [kind |-> "safe", why |-> "", files |-> {}]
Reason(why, files) == [kind |-> "reason", why |-> why, files |-> files]
Raise(exc) == [kind |-> "raise", why |-> exc, files |-> {}]

\* not_duplicate_file_reason: the judgments the call may end with
not_duplicate_file_reason(f, fname1, fname2) ==
    IF same_file_or_dir(f, fname1, fname2) THEN {Reason("same file", {})}
    ELSE LET c == same_content(Obj(f, fname1), Obj(f, fname2), READ_BUFFER_SIZE)
         IN  IF c.raised # "" THEN {Raise(c.raised)}
             ELSE IF ~c.value THEN {Reason("files differ", {})}
             ELSE {Safe}

\* faulty variant: the sizes are compared and the contents are not
not_duplicate_dir_reason_sizes_only(f, directory, duplicate_candidate, ignored_differences) ==
    IF same_file_or_dir(f, directory, duplicate_candidate)
    THEN {Reason("same directory", {})}
    ELSE IF ~IsDirectory(f, duplicate_candidate) \/ ~IsDirectory(f, directory)
    THEN {Raise("OSError")}
    ELSE LET possible_duplicate_files ==
                Range(files_in(f, duplicate_candidate, ignored_differences))
             extra_files == possible_duplicate_files \ Range(files_in(f, directory, <<>>))
             size_differs == {x \in possible_duplicate_files :
                ~same_size(Obj(f, join(directory, x)),
                           Obj(f, join(duplicate_candidate, x)))}
         IN  IF extra_files # {} THEN {Reason("extra files", extra_files)}
             ELSE IF size_differs # {}
             THEN {Reason("sizes differ", {x}) : x \in size_differs}
             ELSE {Safe}

\* not_duplicate_dir_reason: the judgments the call may end with (a set is
\* iterated in any order, so any offending file may be the one reported)
not_duplicate_dir_reason(f, directory, duplicate_candidate, ignored_differences) ==
    IF same_file_or_dir(f, directory, duplicate_candidate)
    THEN {Reason("same directory", {})}
    ELSE IF ~IsDirectory(f, duplicate_candidate) \/ ~IsDirectory(f, directory)
    THEN {Raise("OSError")}  \* os.listdir
    ELSE LET possible_duplicate_files ==
                Range(files_in(f, duplicate_candidate, ignored_differences))
             extra_files == possible_duplicate_files \ Range(files_in(f, directory, <<>>))
             size_differs == {x \in possible_duplicate_files :
                ~same_size(Obj(f, join(directory, x)),
                           Obj(f, join(duplicate_candidate, x)))}
             content(x) == same_content(Obj(f, join(directory, x)),
                                        Obj(f, join(duplicate_candidate, x)),
                                        READ_BUFFER_SIZE)
             stops == {x \in possible_duplicate_files :
                content(x).raised # "" \/ ~content(x).value}
         IN  IF extra_files # {} THEN {Reason("extra files", extra_files)}
             ELSE IF size_differs # {}
             THEN {Reason("sizes differ", {x}) : x \in size_differs}
             ELSE IF stops # {}
             THEN {IF content(x).raised # "" THEN Raise(content(x).raised)
                   ELSE Reason("files differ", {x}) : x \in stops}
             ELSE {Safe}

(* ----------------------------- GuardedRemover ------------------------- *)

\* remove_file_or_dir: shutil.rmtree of a directory, os.remove of a file
remove_file_or_dir(f, path) ==
    IF isdir(f, path)
    THEN [q \in {q \in DOMAIN f : ~IsPrefix(path, q)} |-> f[q]]
    ELSE [q \in DOMAIN f \ {path} |-> f[q]]

\* print_duplicate (the dry run) and the tests' recording action change nothing
print_duplicate(f, path) == f

Processors == {"remove_file_or_dir", "print_duplicate"}

apply_process(process, f, path) ==
    IF process = "remove_file_or_dir" THEN remove_file_or_dir(f, path)
    ELSE print_duplicate(f, path)

Outcome(outcome, reason, calls, f) ==
    [outcome |-> outcome, reason |-> reason, calls |-> calls, fs |-> f]

\* the judge process_duplicate consults for an existing duplicate
judge(f, orig, duplicate, ignored_differences) ==
    IF isdir(f, duplicate)
    THEN not_duplicate_dir_reason(f, orig, duplicate, ignored_differences)
    ELSE not_duplicate_file_reason(f, orig, duplicate)

\* faulty variant: process is invoked whatever the judge said
process_duplicate_unguarded(f, orig, duplicate, ignored_differences, process) ==
    IF ~file_exists(f, duplicate)
    THEN {Outcome("NotDuplicate", Reason("does not exist", {}), <<>>, f)}
    ELSE {IF reason_not_duplicate.kind = "raise"
          THEN Outcome(reason_not_duplicate.why, reason_not_duplicate, <<>>, f)
          ELSE Outcome(IF reason_not_duplicate.kind = "safe" THEN "returned" ELSE "NotDuplicate",
                       reason_not_duplicate, <<duplicate>>,
                       apply_process(process, f, duplicate))
          : reason_not_duplicate \in judge(f, orig, duplicate, ignored_differences)}

\* the part of process_duplicate that follows the check that the duplicate exists
judge_and_process(f, orig, duplicate, ignored_differences, process) ==
    {IF reason_not_duplicate.kind = "safe"
     THEN Outcome("returned", reason_not_duplicate, <<duplicate>>,
                  apply_process(process, f, duplicate))
     ELSE IF reason_not_duplicate.kind = "reason"
     THEN Outcome("NotDuplicate", reason_not_duplicate, <<>>, f)
     ELSE Outcome(reason_not_duplicate.why, reason_not_duplicate, <<>>, f)
     : reason_not_duplicate \in judge(f, orig, duplicate, ignored_differences)}

\* faulty variant: a duplicate that does not exist is a silent success
process_duplicate_missing_ok(f, orig, duplicate, ignored_differences, process) ==
    IF ~file_exists(f, duplicate)
    THEN {Outcome("returned", Safe, <<>>, f)}
    ELSE judge_and_process(f, orig, duplicate, ignored_differences, process)

\* faulty variant: the duplicate is judged without the check that it exists
process_duplicate_unchecked(f, orig, duplicate, ignored_differences, process) ==
    judge_and_process(f, orig, duplicate, ignored_differences, process)

\* process_duplicate: the ways the call may end: it returns, or raises
\* NotDuplicate, or an exception of the judge passes through it
process_duplicate(f, orig, duplicate, ignored_differences, process) ==
    IF ~file_exists(f, duplicate)
    THEN {Outcome("NotDuplicate", Reason("does not exist", {}), <<>>, f)}
    ELSE judge_and_process(f, orig, duplicate, ignored_differences, process)

(* ------------------------- the command line --------------------------- *)

\* a path as the str the command line gives it: its names joined by os.path.sep
RECURSIVE PathStr(_)
PathStr(p) ==
    IF Len(p) = 1 THEN p[1] ELSE p[1] \o <<sep>> \o PathStr(Tail(p))

\* ignored_differences: relative paths below the duplicate
IgnoreStrings == {PathStr(p) : p \in ArgPaths}
IgnoreLists == {<<>>} \cup {<<s>> : s \in IgnoreStrings}

NoArgs == [main |-> <<>>, duplicate |-> <<>>, ignored_differences |-> <<>>,
           duplicate_processor |-> ""]
NoResult == [outcome |-> "", reason |-> Safe, calls |-> <<>>]
NoCmp == [fname1 |-> Missing, fname2 |-> Missing, n |-> 0,
          raised |-> "", value |-> FALSE, reads |-> <<>>]
NoSkip == [path_list |-> <<>>, tree |-> EmptyTree, built |-> FALSE]
NoListing == [directory |-> <<>>, skip_paths |-> <<>>, raised |-> "", files |-> <<>>]
NoCheck == [directory |-> <<>>, duplicate_candidate |-> <<>>, ignored_differences |-> <<>>,
            reason |-> Safe, events |-> <<>>]

Init ==
    /\ fs = <<>>
    /\ phase = "setup"
    /\ args = NoArgs
    /\ before = <<>>
    /\ result = NoResult
    /\ removed = {}
    /\ cmp = NoCmp
    /\ skip = NoSkip
    /\ listing = NoListing
    /\ check = NoCheck

(* ----------------------- building the filesystem ---------------------- *)

MakeFile ==
    /\ phase = "setup"
    /\ \E p \in Paths, content \in Contents :
        /\ make_file_ok(fs, p)
        /\ Cardinality(DOMAIN make_file(fs, p, content)) <= MaxNodes
        /\ fs' = make_file(fs, p, content)
    /\ UNCHANGED <<phase, args, before, result, removed, cmp, skip, listing, check>>

Mkdir ==
    /\ phase = "setup"
    /\ \E p \in Paths :
        /\ mkdir_ok(fs, p)
        /\ Cardinality(DOMAIN fs) < MaxNodes
        /\ fs' = mkdir(fs, p)
    /\ UNCHANGED <<phase, args, before, result, removed, cmp, skip, listing, check>>

Link ==
    /\ phase = "setup"
    /\ \E src \in DOMAIN fs, dst \in Paths :
        /\ link_ok(fs, src, dst)
        /\ Cardinality(DOMAIN fs) < MaxNodes
        /\ fs' = link(fs, src, dst)
    /\ UNCHANGED <<phase, args, before, result, removed, cmp, skip, listing, check>>

(* ------------------------------ the program --------------------------- *)

\* one run of the command: parse the arguments, process_duplicate, and the
\* except clause that prints a NotDuplicate
Run(a) ==
    \E r \in process_duplicate(fs, a.main, a.duplicate,
                               a.ignored_differences, a.duplicate_processor) :
        /\ args' = a
        /\ before' = fs
        /\ fs' = r.fs
        /\ result' = [outcome |-> r.outcome, reason |-> r.reason, calls |-> r.calls]
        /\ removed' = IF r.calls # <<>> /\ a.duplicate_processor = "remove_file_or_dir"
                      THEN removed \cup Range(r.calls) ELSE removed
        /\ phase' = "ran"
        /\ UNCHANGED <<cmp, skip, listing, check>>

Main ==
    /\ phase = "setup"
    /\ \E main \in ArgPaths, duplicate \in ArgPaths,
          ignored \in IgnoreLists, processor \in Processors :
        Run([main |-> main, duplicate |-> duplicate,
             ignored_differences |-> ignored, duplicate_processor |-> processor])

\* the same command line once more, after a run that succeeded (after any
\* other run the tree is as it was and the run would repeat itself)
MainAgain ==
    /\ phase = "ran"
    /\ result.outcome = "returned"
    /\ Run(args)

Next == MakeFile \/ Mkdir \/ Link \/ Main \/ MainAgain

Spec == Init /\ [][Next]_vars

(* ------------------------ same_content on its own --------------------- *)

\* what the two names given to same_content may denote
Objects ==
    {Missing}
    \cup {[kind |-> "dir", size |-> n] : n \in 0..MaxLen}
    \cup {[kind |-> "file", size |-> Len(d), data |-> d] : d \in SeqsUpTo(Bytes, MaxLen)}

SameContent ==
    /\ cmp = NoCmp
    /\ \E o1 \in Objects, o2 \in Objects, n \in 1..MaxBlock :
        LET c == same_content(o1, o2, n)
        IN  cmp' = [fname1 |-> o1, fname2 |-> o2, n |-> n,
                    raised |-> c.raised, value |-> c.value, reads |-> c.reads]
    /\ UNCHANGED <<fs, phase, args, before, result, removed, skip, listing, check>>

NextContent == SameContent

SpecContent == Init /\ [][NextContent]_vars

(* -------------------- _make_skip_path_tree on its own ----------------- *)

SkipStrings == SeqsUpTo(Chars, MaxSkipLen)
SkipLists == SeqsUpTo(SkipStrings, MaxSkipPaths)

MakeSkipPathTree ==
    /\ ~skip.built
    /\ \E path_list \in SkipLists :
        skip' = [path_list |-> path_list, tree |-> _make_skip_path_tree(path_list),
                 built |-> TRUE]
    /\ UNCHANGED <<fs, phase, args, before, result, removed, cmp, listing, check>>

NextSkip == MakeSkipPathTree

SpecSkip == Init /\ [][NextSkip]_vars

(* --------------------------- files_in on its own ---------------------- *)

\* the fixture of Test_files_in: empty files, their parent directories made
Touch ==
    /\ phase = "setup"
    /\ \E p \in Paths :
        /\ p \notin DOMAIN fs
        /\ make_file_ok(fs, p)
        /\ Cardinality(DOMAIN make_file(fs, p, <<>>)) <= MaxNodes
        /\ fs' = make_file(fs, p, <<>>)
    /\ UNCHANGED <<phase, args, before, result, removed, cmp, skip, listing, check>>

\* skip_paths: none, one or two relative paths
SkipPathLists == SeqsUpTo(IgnoreStrings, 2)

\* the root handed to files_in: the working directory or a path below it
Roots == {<<>>} \cup ArgPaths

\* set(files_in(directory, skip_paths)): the generator is run to its end; the
\* os.listdir of a root that is no directory raises OSError
FilesIn ==
    /\ phase = "setup"
    /\ \E directory \in Roots, skip_paths \in SkipPathLists :
        listing' = [directory |-> directory, skip_paths |-> skip_paths,
                    raised |-> IF IsDirectory(fs, directory) THEN "" ELSE "OSError",
                    files |-> IF IsDirectory(fs, directory)
                              THEN files_in(fs, directory, skip_paths) ELSE <<>>]
    /\ phase' = "listed"
    /\ UNCHANGED <<fs, args, before, result, removed, cmp, skip, check>>

NextFiles == Touch \/ Mkdir \/ FilesIn

SpecFiles == Init /\ [][NextFiles]_vars

(* ---------------- not_duplicate_dir_reason, step by step -------------- *)

\* what the judge does to the filesystem, in the order it does it
Event(op, file, side, block) == [op |-> op, file |-> file, side |-> side, block |-> block]

Minimum(S) == CHOOSE m \in S : \A k \in S : m <= k

RECURSIVE Concat(_)
Concat(seqs) == IF seqs = <<>> THEN <<>> ELSE Head(seqs) \o Concat(Tail(seqs))

\* the orders a loop may take the elements of a set in
Orders(S) == {order \in [1..Cardinality(S) -> S] : Range(order) = S}

\* one call of same_content(fname, candidate_fname) for the relative path x:
\* same_size, then both files opened and blocks read from them in turn
same_content_events(f, directory, duplicate_candidate, x) ==
    LET o1 == Obj(f, join(directory, x))
        o2 == Obj(f, join(duplicate_candidate, x))
        c == same_content(o1, o2, READ_BUFFER_SIZE)
    IN  <<Event("same_size", x, 0, <<>>)>>
        \o (IF same_size(o1, o2) /\ c.raised = ""
            THEN <<Event("open", x, 1, <<>>), Event("open", x, 2, <<>>)>>
                 \o [i \in 1..Len(c.reads) |->
                        Event("read", x, IF i % 2 = 1 THEN 1 ELSE 2, c.reads[i])]
            ELSE <<>>)

\* faulty variant: one loop for both checks, each file's content is compared
\* right after its size
not_duplicate_dir_reason_one_sweep(f, directory, duplicate_candidate, ignored_differences, order) ==
    LET start == <<Event("same_file_or_dir", directory, 0, <<>>)>>
    IN  IF same_file_or_dir(f, directory, duplicate_candidate)
        THEN [reason |-> Reason("same directory", {}), events |-> start]
        ELSE
        LET possible_duplicate_files ==
                Range(files_in(f, duplicate_candidate, ignored_differences))
            extra_files == possible_duplicate_files \ Range(files_in(f, directory, <<>>))
            listed == start \o <<Event("files_in", duplicate_candidate, 0, <<>>),
                                 Event("files_in", directory, 0, <<>>)>>
            sized(x) == same_size(Obj(f, join(directory, x)),
                                  Obj(f, join(duplicate_candidate, x)))
            content(x) == same_content(Obj(f, join(directory, x)),
                                       Obj(f, join(duplicate_candidate, x)),
                                       READ_BUFFER_SIZE)
            stops == {i \in 1..Len(order) :
                        ~sized(order[i]) \/ content(order[i]).raised # ""
                        \/ ~content(order[i]).value}
            upto == IF stops = {} THEN Len(order) ELSE Minimum(stops)
            events == Concat([i \in 1..upto |->
                        <<Event("same_size", order[i], 0, <<>>)>>
                        \o (IF sized(order[i])
                            THEN same_content_events(f, directory, duplicate_candidate, order[i])
                            ELSE <<>>)])
        IN  IF extra_files # {}
            THEN [reason |-> Reason("extra files", extra_files), events |-> listed]
            ELSE IF stops = {}
            THEN [reason |-> Safe, events |-> listed \o events]
            ELSE [reason |->
                    IF ~sized(order[upto]) THEN Reason("sizes differ", {order[upto]})
                    ELSE IF content(order[upto]).raised # ""
                    THEN Raise(content(order[upto]).raised)
                    ELSE Reason("files differ", {order[upto]}),
                  events |-> listed \o events]

\* not_duplicate_dir_reason for two listable directories, the two for loops
\* taking the set possible_duplicate_files in the given order: the judgment,
\* and what was done to reach it
not_duplicate_dir_reason_steps(f, directory, duplicate_candidate, ignored_differences, order) ==
    LET start == <<Event("same_file_or_dir", directory, 0, <<>>)>>
    IN  IF same_file_or_dir(f, directory, duplicate_candidate)
        THEN [reason |-> Reason("same directory", {}), events |-> start]
        ELSE
        LET possible_duplicate_files ==
                Range(files_in(f, duplicate_candidate, ignored_differences))
            extra_files == possible_duplicate_files \ Range(files_in(f, directory, <<>>))
            listed == start \o <<Event("files_in", duplicate_candidate, 0, <<>>),
                                 Event("files_in", directory, 0, <<>>)>>
            sized(x) == same_size(Obj(f, join(directory, x)),
                                  Obj(f, join(duplicate_candidate, x)))
            content(x) == same_content(Obj(f, join(directory, x)),
                                       Obj(f, join(duplicate_candidate, x)),
                                       READ_BUFFER_SIZE)
            size_stops == {i \in 1..Len(order) : ~sized(order[i])}
            size_upto == IF size_stops = {} THEN Len(order) ELSE Minimum(size_stops)
            size_events == [i \in 1..size_upto |-> Event("same_size", order[i], 0, <<>>)]
            content_stops == {i \in 1..Len(order) :
                                content(order[i]).raised # "" \/ ~content(order[i]).value}
            content_upto == IF content_stops = {} THEN Len(order) ELSE Minimum(content_stops)
            content_events == Concat([i \in 1..content_upto |->
                same_content_events(f, directory, duplicate_candidate, order[i])])
        IN  IF extra_files # {}
            THEN [reason |-> Reason("extra files", extra_files), events |-> listed]
            ELSE IF size_stops # {}
            THEN [reason |-> Reason("sizes differ", {order[size_upto]}),
                  events |-> listed \o size_events]
            ELSE IF content_stops # {}
            THEN [reason |->
                    IF content(order[content_upto]).raised # ""
                    THEN Raise(content(order[content_upto]).raised)
                    ELSE Reason("files differ", {order[content_upto]}),
                  events |-> listed \o size_events \o content_events]
            ELSE [reason |-> Safe,
                  events |-> listed \o size_events \o content_events]

\* the fixture of Test_not_duplicate_dir_reason: an original directory and a
\* candidate directory, and in each some of the same file names
OrigDir == <<<<"a">>>>
CandDir == <<<<"b">>>>
\* a layout: the names of the files of a directory and what each holds
Layouts == UNION {[present -> Contents] : present \in SUBSET Names}

RECURSIVE make_files(_, _, _, _)
make_files(f, directory, layout, names) ==
    IF names = <<>> THEN f
    ELSE make_files(make_file(f, join(directory, <<Head(names)>>), layout[Head(names)]),
                    directory, layout, Tail(names))

Fixture ==
    /\ phase = "setup" /\ fs = <<>> /\ cmp = NoCmp
    /\ \E orig \in Layouts, candidate \in Layouts :
        fs' = make_files(make_files(mkdir(mkdir(fs, OrigDir), CandDir),
                                    OrigDir, orig, SetToSeq(DOMAIN orig)),
                         CandDir, candidate, SetToSeq(DOMAIN candidate))
    /\ UNCHANGED <<phase, args, before, result, removed, cmp, skip, listing, check>>

\* ignored_differences of the judge: nothing, or one file name
FixtureIgnores == {<<>>} \cup {<<name>> : name \in Names}

DirReason ==
    /\ phase = "setup" /\ isdir(fs, OrigDir) /\ isdir(fs, CandDir)
    /\ \E ignored \in FixtureIgnores :
        \E order \in Orders(Range(files_in(fs, CandDir, ignored))) :
            LET r == not_duplicate_dir_reason_steps(fs, OrigDir, CandDir, ignored, order)
            IN  check' = [directory |-> OrigDir, duplicate_candidate |-> CandDir,
                          ignored_differences |-> ignored,
                          reason |-> r.reason, events |-> r.events]
    /\ phase' = "judged"
    /\ UNCHANGED <<fs, args, before, result, removed, cmp, skip, listing>>

\* Test_same_content runs on files of its own, with its own read_block
ReadBlocks ==
    /\ phase = "setup" /\ fs = <<>>
    /\ SameContent

NextOrder == Fixture \/ DirReason \/ ReadBlocks

SpecOrder == Init /\ [][NextOrder]_vars

(* ======================= claims: process_duplicate ==================== *)

Ran == phase = "ran"
Orig == args.main
Duplicate == args.duplicate
Ignored == args.ignored_differences
Removing == args.duplicate_processor = "remove_file_or_dir"

\* the judgments the judge may give for the run's arguments on the tree the
\* run started from
Judgments == judge(before, Orig, Duplicate, Ignored)

\* two existing paths that denote one object: one directory, or one inode
SameObject(f, p, q) ==
    /\ p \in DOMAIN f /\ q \in DOMAIN f
    /\ f[p].kind = f[q].kind
    /\ IF f[p].kind = "dir" THEN p = q ELSE f[p].ino = f[q].ino

\* C1: with an existing duplicate, process is invoked only on a safe judgment,
\* and then once, with the duplicate; on a reason NotDuplicate carries that
\* reason, process is not invoked and the tree is as it was.
C1_ProcessOnlyWhenSafe ==
    (Ran /\ file_exists(before, Duplicate)) =>
        /\ result.reason \in Judgments
        /\ result.calls # <<>> => result.reason.kind = "safe"
        /\ result.reason.kind = "safe" =>
            /\ result.calls = <<Duplicate>>
            /\ result.outcome = "returned"
        /\ result.reason.kind = "reason" =>
            /\ result.outcome = "NotDuplicate"
            /\ result.calls = <<>>
            /\ fs = before

\* a refused run: an existing duplicate that the judge gave a reason against
C1_Witness ==
    /\ Ran /\ file_exists(before, Duplicate) /\ file_exists(before, Orig)
    /\ result.outcome = "NotDuplicate"
    /\ result.reason.why = "extra files"
    /\ Removing

\* C2 (as claimed): after a run with the default removal action every file
\* that was under the original is still there with its content.
C2_OriginalKept ==
    (Ran /\ Removing) =>
        \A p \in DOMAIN before :
            (IsPrefix(Orig, p) /\ before[p].kind = "file") =>
                (p \in DOMAIN fs /\ fs[p] = before[p])

\* the files enumerated in the candidate under the ignore list, and how each
\* compares with the original's entry at the same relative path
Enumerated == Range(files_in(before, Duplicate, Ignored))
InOriginal(x) == isfile(before, join(Orig, x))
SameLen(x) == Len(before[join(Orig, x)].data) = Len(before[join(Duplicate, x)].data)
SameBytes(x) == before[join(Orig, x)].data = before[join(Duplicate, x)].data

TwoDirectories ==
    /\ Ran /\ isdir(before, Orig) /\ isdir(before, Duplicate)
    /\ ~SameObject(before, Orig, Duplicate)

\* C3: for two existing directories that are not one object the judgment is
\* safe exactly when every file enumerated in the candidate under the ignore
\* list is a file of the original at the same relative path with the same
\* size and bytes; otherwise it is a reason: extra files, sizes, or contents.
C3_DirVerdict ==
    TwoDirectories =>
        LET enumerated == Enumerated
            extra == {x \in enumerated : ~InOriginal(x)}
            verdict == result.reason
        IN  /\ verdict.kind \in {"safe", "reason"}
            /\ verdict.kind = "safe" <=>
                \A x \in enumerated : InOriginal(x) /\ SameLen(x) /\ SameBytes(x)
            /\ verdict.kind = "reason" =>
                /\ verdict.why \in {"extra files", "sizes differ", "files differ"}
                /\ verdict.why = "extra files" <=> extra # {}
                /\ verdict.why = "extra files" => verdict.files = extra
                /\ verdict.why = "sizes differ" =>
                    \E x \in enumerated : verdict.files = {x} /\ ~SameLen(x)
                /\ verdict.why = "files differ" =>
                    /\ \A x \in enumerated : SameLen(x)
                    /\ \E x \in enumerated : verdict.files = {x} /\ ~SameBytes(x)

\* a safe judgment that compared a file and that the ignore list made possible:
\* the candidate holds a file the original lacks, under an ignored path
C3_Witness ==
    /\ TwoDirectories
    /\ result.reason.kind = "safe"
    /\ Enumerated # {}
    /\ \E x \in Range(files_in(before, Duplicate, <<>>)) : x \notin Enumerated /\ ~InOriginal(x)

\* C4: same_file_or_dir holds exactly of two existing paths that are one
\* object, and such a duplicate is refused with the same-file or the
\* same-directory reason, not handed to process, and nothing changes.
C4_SameObjectRefused ==
    Ran =>
        /\ same_file_or_dir(before, Orig, Duplicate) <=> SameObject(before, Orig, Duplicate)
        /\ SameObject(before, Orig, Duplicate) =>
            /\ result.outcome = "NotDuplicate"
            /\ result.reason =
                Reason(IF isdir(before, Duplicate) THEN "same directory" ELSE "same file", {})
            /\ result.calls = <<>>
            /\ fs = before

\* the duplicate is another name (a hard link) of the original file
C4_Witness ==
    /\ Ran /\ Orig # Duplicate
    /\ SameObject(before, Orig, Duplicate)
    /\ Removing

\* C5 (as claimed): a run whose duplicate does not exist returns normally.
C5_MissingIsNoOp ==
    (Ran /\ ~file_exists(before, Duplicate)) => result.outcome = "returned"

\* C5 (amended): the default action removes the duplicate, and the same call
\* once more, the duplicate then gone, invokes no action and changes nothing
\* but raises NotDuplicate: the duplicate does not exist.
C5_SecondCallRaises ==
    (Ran /\ Duplicate \in removed) =>
        /\ ~file_exists(fs, Duplicate)
        /\ ~file_exists(before, Duplicate) =>
            /\ result.outcome = "NotDuplicate"
            /\ result.reason = Reason("does not exist", {})
            /\ result.calls = <<>>
            /\ fs = before

\* the second of two calls on a duplicate the first one removed
C5_Witness ==
    /\ Ran /\ Duplicate \in removed
    /\ ~file_exists(before, Duplicate)
    /\ file_exists(before, Orig)

\* C6: a run whose duplicate does not exist raises NotDuplicate (it does not
\* exist), invokes no action and leaves the tree, the original with it, as it was.
C6_MissingRaises ==
    (Ran /\ ~file_exists(before, Duplicate)) =>
        /\ result.outcome = "NotDuplicate"
        /\ result.reason = Reason("does not exist", {})
        /\ result.calls = <<>>
        /\ fs = before
        /\ file_exists(before, Orig) => file_exists(fs, Orig)

\* a first call on a duplicate that was never there, the original a directory
C6_Witness ==
    /\ Ran /\ removed = {}
    /\ ~file_exists(before, Duplicate)
    /\ isdir(before, Orig)
    /\ result.outcome = "NotDuplicate"

\* C9 (as claimed): with an existing duplicate the run ends with a verdict:
\* it returns or raises NotDuplicate, whatever the original is.
C9_OnlyNotDuplicate ==
    (Ran /\ file_exists(before, Duplicate)) =>
        /\ result.reason.kind \in {"safe", "reason"}
        /\ result.outcome \in {"returned", "NotDuplicate"}

(* ========================= claims: same_content ======================= *)

Compared == cmp # NoCmp
TwoFiles == Compared /\ cmp.fname1.kind = "file" /\ cmp.fname2.kind = "file"

\* the blocks read from the first file (the odd reads) and from the second
ReadsOf(k) == [i \in 1..(Len(cmp.reads) \div 2) |-> cmp.reads[2 * i - (2 - k)]]

RECURSIVE Flatten(_)
Flatten(blocks) == IF blocks = <<>> THEN <<>> ELSE Head(blocks) \o Flatten(Tail(blocks))

SameBytesAt(d1, d2) == Len(d1) = Len(d2) /\ \A i \in 1..Len(d1) : d1[i] = d2[i]

\* C7: for two readable files and a block size of at least one byte,
\* same_content is true exactly when the files have the same length and the
\* same byte at every position, and it is true only after both files were
\* read to their end (an empty block from each).
C7_SameContentIffEqual ==
    TwoFiles =>
        /\ cmp.raised = ""
        /\ cmp.value <=> SameBytesAt(cmp.fname1.data, cmp.fname2.data)
        /\ cmp.value =>
            /\ Len(cmp.reads) >= 2
            /\ cmp.reads[Len(cmp.reads) - 1] = <<>>
            /\ cmp.reads[Len(cmp.reads)] = <<>>
            /\ Flatten(ReadsOf(1)) = cmp.fname1.data
            /\ Flatten(ReadsOf(2)) = cmp.fname2.data

\* two equal files longer than a block, read to the end in several blocks
C7_Witness ==
    /\ TwoFiles
    /\ cmp.value
    /\ Len(cmp.fname1.data) > cmp.n

\* two files of one length that differ in their last byte only
C7_WitnessDiffer ==
    /\ TwoFiles
    /\ ~cmp.value
    /\ Len(cmp.fname1.data) = MaxLen /\ Len(cmp.fname2.data) = MaxLen
    /\ \A i \in 1..(MaxLen - 1) : cmp.fname1.data[i] = cmp.fname2.data[i]

\* C8 (as claimed): same_content never raises: a missing name gives false
\* with nothing read, and a name that cannot be opened gives false.
C8_NeverRaises ==
    Compared =>
        /\ cmp.raised = ""
        /\ (cmp.fname1.kind # "file" \/ cmp.fname2.kind # "file") =>
            (~cmp.value /\ cmp.reads = <<>>)

(* ===================== claims: _make_skip_path_tree =================== *)

\* the node a chain of segments leads to exists and has no children
RECURSIVE IsLeafAt(_, _)
IsLeafAt(tree, segments) ==
    IF segments = <<>> THEN tree = EmptyTree
    ELSE /\ Head(segments) \in DOMAIN tree
         /\ IsLeafAt(tree[Head(segments)], Tail(segments))

\* a relative path proper: names separated by single separators
ProperPath(s) == \A i \in 1..Len(split(s)) : split(s)[i] # <<>>

\* C10 (as claimed): when the list holds a path and a longer path that
\* extends it, the node of the shorter path is a leaf of the tree built,
\* whichever comes first in the list.
C10_ShorterPathWins ==
    skip.built =>
        \A i \in 1..Len(skip.path_list), j \in 1..Len(skip.path_list) :
            (/\ ProperPath(skip.path_list[i]) /\ ProperPath(skip.path_list[j])
             /\ IsStrictPrefix(split(skip.path_list[i]), split(skip.path_list[j]))) =>
                IsLeafAt(skip.tree, split(skip.path_list[i]))

(* ============================ claims: files_in ======================== *)

Listed == phase = "listed" /\ listing.raised = ""

\* no path of the list is a prefix of another one of the list
PrefixFree(path_list) ==
    \A i \in 1..Len(path_list), j \in 1..Len(path_list) :
        i # j => ~IsPrefix(split(path_list[i]), split(path_list[j]))

\* the relative path is an ignored path or lies beneath one
IgnoredBy(path_list, rel) ==
    \E i \in 1..Len(path_list) : IsPrefix(split(path_list[i]), rel)

\* the files below a root, relative to it
FilesBelow(f, root) ==
    {relpath(p, root) : p \in {q \in DOMAIN f : isfile(f, q) /\ IsStrictPrefix(root, q)}}

\* C11: for a skip list in which no path is a prefix of another, files_in
\* yields, each once and relative to the root, exactly the files below the
\* root whose relative path is no ignored path and lies beneath none; with an
\* empty list that is every file below the root.
C11_FilesInListing ==
    (Listed /\ PrefixFree(listing.skip_paths)) =>
        /\ Range(listing.files) =
            {rel \in FilesBelow(fs, listing.directory) :
                ~IgnoredBy(listing.skip_paths, rel)}
        /\ Cardinality(Range(listing.files)) = Len(listing.files)
        /\ listing.skip_paths = <<>> =>
            Range(listing.files) = FilesBelow(fs, listing.directory)

\* a partially ignored directory: an entry of it is ignored by a path of two
\* segments, and a sibling of that entry is listed
C11_Witness ==
    /\ Listed /\ PrefixFree(listing.skip_paths)
    /\ \E i \in 1..Len(listing.skip_paths) :
        LET segments == split(listing.skip_paths[i])
        IN  /\ Len(segments) = 2
            /\ join(listing.directory, segments) \in DOMAIN fs
            /\ \E rel \in Range(listing.files) :
                Len(rel) = 2 /\ rel[1] = segments[1]

(* ===================== claims: the order of the checks ================ *)

Judged == phase = "judged"

\* the positions in the judge's events of the given operations
EventsAt(ops) == {i \in 1..Len(check.events) : check.events[i].op \in ops}
SizeAt == EventsAt({"same_size"})
ContentAt == EventsAt({"open", "read"})
ReadAt == EventsAt({"read"})

\* the candidate's files that are not ignored, those of them the original
\* lacks, and whether a pair has one length
CandidateFiles ==
    {rel \in FilesBelow(fs, check.duplicate_candidate) :
        ~IgnoredBy(check.ignored_differences, rel)}
ExtraFiles == {x \in CandidateFiles : ~isfile(fs, join(check.directory, x))}
PairSameLen(x) ==
    Len(fs[join(check.directory, x)].data) = Len(fs[join(check.duplicate_candidate, x)].data)

\* the blocks same_content read are, in turn, the next block of the first
\* file and the next block of the second, and every pair but the last is a
\* pair of equal blocks that are not empty
ReadsAlternate ==
    LET pairs == Len(cmp.reads) \div 2
    IN  /\ Len(cmp.reads) = 2 * pairs
        /\ pairs >= 1
        /\ \A i \in 1..pairs :
            /\ cmp.reads[2 * i - 1] = read(cmp.fname1.data, (i - 1) * cmp.n, cmp.n)
            /\ cmp.reads[2 * i] = read(cmp.fname2.data, (i - 1) * cmp.n, cmp.n)
        /\ \A i \in 1..(pairs - 1) :
            cmp.reads[2 * i - 1] = cmp.reads[2 * i] /\ cmp.reads[2 * i] # <<>>
        /\ ~cmp.value => cmp.reads[2 * pairs - 1] # cmp.reads[2 * pairs]

\* C12: the judge of two directories returns the extra-files reason before it
\* compares a size or reads a file; it compares the sizes of all pairs before
\* it opens a file, and opens one only when there are no extra files and all
\* pairs have one size; same_content, of two files of one size, reads a block
\* of the first file, then a block of the second, and reads nothing after the
\* first pair that differs (of two files of different sizes it reads nothing).
C12_CheapFirstOrder ==
    /\ Judged =>
        /\ check.reason \in not_duplicate_dir_reason(fs, check.directory,
                check.duplicate_candidate, check.ignored_differences)
        /\ ExtraFiles # {} =>
            /\ check.reason = Reason("extra files", ExtraFiles)
            /\ SizeAt = {} /\ ContentAt = {}
        /\ \A i \in ContentAt : \A x \in CandidateFiles :
            \E j \in SizeAt : j < i /\ check.events[j].file = x
        /\ ContentAt # {} =>
            /\ ExtraFiles = {}
            /\ \A x \in CandidateFiles : PairSameLen(x)
        /\ \A i \in ReadAt :
            LET other == IF check.events[i].side = 1 THEN i + 1 ELSE i - 1
            IN  /\ other \in ReadAt
                /\ check.events[other].side = 3 - check.events[i].side
                /\ check.events[other].file = check.events[i].file
                /\ check.events[other].block # check.events[i].block =>
                    /\ \A k \in ContentAt : k <= i \/ k <= other
                    /\ check.reason = Reason("files differ", {check.events[i].file})
    /\ TwoFiles =>
        IF cmp.fname1.size # cmp.fname2.size THEN cmp.reads = <<>> ELSE ReadsAlternate

\* two pairs of one size each, both sized before a file was opened, and the
\* reading ended by a pair of blocks that differ
C12_Witness ==
    /\ Judged
    /\ Cardinality(CandidateFiles) = 2
    /\ ContentAt # {}
    /\ check.reason.why = "files differ"

\* two files of one length that differ in their first block and not in their
\* last: the blocks after the first pair were not read
C12_WitnessBlocks ==
    /\ TwoFiles /\ ~cmp.value
    /\ Len(cmp.fname1.data) > cmp.n
    /\ Len(cmp.reads) = 2

====
